---- MODULE Spec2Model ----
(***************************************************************************)
(* No Overflow (src/main.py): a control loop that reads a liquid level,    *)
(* smooths it over a bounded queue, classifies it into a tier and gates a  *)
(* power switch behind a cool-off timer.                                   *)
(*                                                                         *)
(* Voltages are exact rationals <<num, den>> in hundredths of a volt       *)
(* (2.25 V is <<225, 1>>), so that the average sum/len is exact.  Time is  *)
(* the value of time.monotonic() in whole seconds.                         *)
(***************************************************************************)
EXTENDS Integers, Sequences, FiniteSets

VARIABLES
    store,            \* Queue.store of recentLevels
    max,              \* Queue.max of recentLevels
    state,            \* State.state
    switchValue,      \* switch.value
    powerOffTime,     \* AcPower.powerOffTime
    now,              \* the last value time.monotonic() returned
    powerOffTimeOut,  \* main loop's powerOffTime, the value turnAcOff returned (-1: not assigned yet)
    coolingOff,       \* the value the last isCoolingOff() returned
    inputs,           \* the arguments of the last applyInputs call
    lastCall,         \* the last AcPower / State method invoked
    ticks,            \* iterations of the main loop completed
    calls,            \* direct method calls completed (unit specifications)
    offCalls,         \* calls of turnAcOff so far
    lastDeenergize,   \* time of the most recent on -> off change of the switch (-1: none)
    tiers,            \* State.state after each tick, in order
    error,            \* the exception the last operation raised ("none": it returned)
    appended          \* every value Queue.append has stored, in order

vars == <<store, max, state, switchValue, powerOffTime, now, powerOffTimeOut,
          coolingOff, inputs, lastCall, ticks, calls, offCalls, lastDeenergize, tiers,
          error, appended>>

----------------------------------------------------------------------------
(* Bounds of the model *)

MaxTicks == 4
MaxCalls == 4
MaxTime == 180
MaxInputs == 2
MaxCap == 3
MaxQueueCalls == 5
MaxLongTicks == 11

(* Readings the sensor delivers in the main loop (hundredths of a volt) *)
Volts == {10, 150, 205, 215, 225, 330}

(* Values appended to a Queue driven directly *)
QueueVolts == {150, 215, 225}

(* Values handed to applyInputs directly: every range and every threshold *)
InputVolts == {150, 200, 205, 212, 215, 220, 225}

(* Seconds the monotonic clock advances between two readings of it *)
Deltas == {0, 30, 60}

(* Readings and clock steps of the runs long enough to fill the queue *)
LongVolts == {150, 225}
LongDeltas == {0, 30}

----------------------------------------------------------------------------
(* SETTINGS *)

infoThresholdVolts == 200
noticeThresholdVolts == 212
warnThresholdVolts == 220

acPowerOn == FALSE
acPowerOff == ~acPowerOn

coolOffSeconds == 60

----------------------------------------------------------------------------
(* Rational arithmetic for float comparisons *)

Rat(v) == <<v, 1>>

\* input < threshold
Lt(input, threshold) == input[1] < threshold * input[2]

\* input >= threshold
Ge(input, threshold) == input[1] >= threshold * input[2]

RECURSIVE Sum(_)
Sum(s) == IF s = <<>> THEN 0 ELSE Head(s) + Sum(Tail(s))

----------------------------------------------------------------------------
(* Queue *)

popleft(s) == Tail(s)

RECURSIVE evict(_, _)
evict(s, neededLen) ==
    LET s1 == popleft(s)
    IN IF Len(s1) <= neededLen THEN s1 ELSE evict(s1, neededLen)

\* neededLen = self.max, the "- 1" forgotten
appendKeepsOneMore(s, mx, newElem) ==
    LET neededLen == mx
        s1 == IF Len(s) > neededLen THEN evict(s, neededLen) ELSE s
    IN Append(s1, newElem)

append(s, mx, newElem) ==
    LET neededLen == mx - 1
        s1 == IF Len(s) > neededLen THEN evict(s, neededLen) ELSE s
    IN Append(s1, newElem)

avg(iter) == <<Sum(iter), Len(iter)>>

\* the exception append raises: with neededLen < 0 the loop pops until the
\* list is empty and then pops once more
appendOutcome(s, mx) ==
    IF Len(s) > mx - 1 /\ mx - 1 < 0 THEN "IndexError" ELSE "none"

\* the exception avg raises: sum / float(0)
avgOutcome(iter) == IF Len(iter) = 0 THEN "ZeroDivisionError" ELSE "none"

----------------------------------------------------------------------------
(* AcPower *)

\* the comparison written as <=
isCoolingOffInclusive(pot, t) == t - pot <= coolOffSeconds

\* the operands of the subtraction swapped
isCoolingOffSwapped(pot, t) == pot - t < coolOffSeconds

isCoolingOff(pot, t) == t - pot < coolOffSeconds

\* the switch assignment moved inside the if block
turnAcOffSwitchInsideIf(sw, pot, t) ==
    LET record == (sw = TRUE) \/ (pot = -1)
        pot1 == IF record THEN t ELSE pot
    IN [switchValue |-> IF record THEN acPowerOff ELSE sw,
        powerOffTime |-> pot1, ret |-> pot1]

\* the "or self.powerOffTime == -1" clause left out
turnAcOffNoFirstTime(sw, pot, t) ==
    LET pot1 == IF sw = TRUE THEN t ELSE pot
    IN [switchValue |-> acPowerOff, powerOffTime |-> pot1, ret |-> pot1]

\* the new switch.value and powerOffTime, and the value returned
turnAcOff(sw, pot, t) ==
    LET pot1 == IF (sw = TRUE) \/ (pot = -1) THEN t ELSE pot
    IN [switchValue |-> acPowerOff, powerOffTime |-> pot1, ret |-> pot1]

\* self.switch.value = acPowerOff, the wrong constant
turnAcOnWrongValue(sw, pot, t) == IF ~isCoolingOff(pot, t) THEN acPowerOff ELSE sw

\* the new switch.value
turnAcOn(sw, pot, t) == IF ~isCoolingOff(pot, t) THEN acPowerOn ELSE sw

----------------------------------------------------------------------------
(* State *)

inNormal(input, infoThreshold) == Lt(input, infoThreshold)

\* the lower comparison written as >
inInfoExclusive(input, infoThreshold, noticeThreshold) ==
    input[1] > infoThreshold * input[2] /\ Lt(input, noticeThreshold)

inInfo(input, infoThreshold, noticeThreshold) ==
    Ge(input, infoThreshold) /\ Lt(input, noticeThreshold)

inNotice(input, noticeThreshold, warningThreshold) ==
    Ge(input, noticeThreshold) /\ Lt(input, warningThreshold)

\* the comparison written as >
inWarningExclusive(input, warningThreshold) ==
    input[1] > warningThreshold * input[2]

inWarning(input, warningThreshold) == Ge(input, warningThreshold)

\* the branch of the if / elif chain an input takes ("none": no branch)
branchOf(input) ==
    IF inNormal(input, infoThresholdVolts) THEN "normal"
    ELSE IF inInfo(input, infoThresholdVolts, noticeThresholdVolts) THEN "info"
    ELSE IF inNotice(input, noticeThresholdVolts, warnThresholdVolts) THEN "notice"
    ELSE IF inWarning(input, warnThresholdVolts) THEN "warning"
    ELSE "none"

\* the list of booleans the loop over the inputs builds for one tier
flags(tier, ins) ==
    LET taken == SelectSeq(ins, LAMBDA x : branchOf(x) # "none")
    IN [i \in 1..Len(taken) |-> branchOf(taken[i]) = tier]

\* output = output or r
reduceOr(results) ==
    IF Len(results) < 1 THEN FALSE
    ELSE \E i \in 1..Len(results) : results[i]

\* return output indented into the for loop
reduceFirst(results) ==
    IF Len(results) < 1 THEN FALSE
    ELSE results[1]

\* None (an empty list) is falsy in the only place the result is used
reduceAnd(results) ==
    IF Len(results) < 1 THEN FALSE
    ELSE \A i \in 1..Len(results) : results[i]

\* rewritten with all(), which is true of an empty list, the length check
\* dropped
applyInputsVacuous(st, ins) ==
    IF \A i \in 1..Len(flags("normal", ins)) : flags("normal", ins)[i] THEN "normal"
    ELSE IF \A i \in 1..Len(flags("info", ins)) : flags("info", ins)[i] THEN "info"
    ELSE IF \A i \in 1..Len(flags("notice", ins)) : flags("notice", ins)[i] THEN "notice"
    ELSE IF \A i \in 1..Len(flags("warning", ins)) : flags("warning", ins)[i]
      THEN "warning"
    ELSE st

\* self.state = "warn" in the last branch
applyInputsMisspelt(st, ins) ==
    IF Len(ins) < 1 THEN st
    ELSE IF reduceAnd(flags("normal", ins)) THEN "normal"
    ELSE IF reduceAnd(flags("info", ins)) THEN "info"
    ELSE IF reduceAnd(flags("notice", ins)) THEN "notice"
    ELSE IF reduceAnd(flags("warning", ins)) THEN "warn"
    ELSE st

\* the new State.state
applyInputs(st, ins) ==
    IF Len(ins) < 1 THEN st
    ELSE IF reduceAnd(flags("normal", ins)) THEN "normal"
    ELSE IF reduceAnd(flags("info", ins)) THEN "info"
    ELSE IF reduceAnd(flags("notice", ins)) THEN "notice"
    ELSE IF reduceAnd(flags("warning", ins)) THEN "warning"
    ELSE st

----------------------------------------------------------------------------
(* State after the module-level construction (lines 44, 247-253) *)

Init ==
    /\ store = <<>>
    /\ max = 10
    /\ state = "normal"
    /\ switchValue = acPowerOn
    /\ powerOffTime = -1
    /\ now = 0
    /\ powerOffTimeOut = -1
    /\ coolingOff = FALSE
    /\ inputs = <<>>
    /\ lastCall = "none"
    /\ ticks = 0
    /\ calls = 0
    /\ offCalls = 0
    /\ lastDeenergize = -1
    /\ tiers = <<>>
    /\ error = "none"
    /\ appended = <<>>

----------------------------------------------------------------------------
(* MAIN LOOP: one iteration, fed the reading v, with the clock d seconds   *)
(* further than at the previous iteration                                  *)

Tick(v, d) ==
    LET t == now + d
        store1 == append(store, max, v)
        ins == <<Rat(v), avg(store1)>>
        state1 == applyInputs(state, ins)
        off == turnAcOff(switchValue, powerOffTime, t)
        sw1 == IF state1 \in {"normal", "info", "notice"}
                 THEN turnAcOn(switchValue, powerOffTime, t)
               ELSE IF state1 = "warning" THEN off.switchValue
               ELSE switchValue
    IN /\ now' = t
       /\ store' = store1
       /\ inputs' = ins
       /\ state' = state1
       /\ switchValue' = sw1
       /\ IF state1 \in {"normal", "info", "notice"}
            THEN /\ coolingOff' = isCoolingOff(powerOffTime, t)
                 /\ lastCall' = "turnAcOn"
                 /\ UNCHANGED <<powerOffTime, powerOffTimeOut, offCalls>>
          ELSE IF state1 = "warning"
            THEN /\ powerOffTime' = off.powerOffTime
                 /\ powerOffTimeOut' = off.ret
                 /\ offCalls' = offCalls + 1
                 /\ lastCall' = "turnAcOff"
                 /\ UNCHANGED coolingOff
          ELSE /\ lastCall' = "none"
               /\ UNCHANGED <<powerOffTime, powerOffTimeOut, offCalls, coolingOff>>
       /\ lastDeenergize' = IF switchValue = acPowerOn /\ sw1 = acPowerOff
                              THEN t ELSE lastDeenergize
       /\ tiers' = Append(tiers, state1)
       /\ ticks' = ticks + 1
       /\ error' = IF appendOutcome(store, max) # "none"
                     THEN appendOutcome(store, max) ELSE avgOutcome(store1)
       /\ appended' = Append(appended, v)
       /\ UNCHANGED <<max, calls>>

Next == \E v \in Volts, d \in Deltas : ticks < MaxTicks /\ Tick(v, d)

Spec == Init /\ [][Next]_vars

(* The main loop run past the capacity of recentLevels *)

NextLong == \E v \in LongVolts, d \in LongDeltas : ticks < MaxLongTicks /\ Tick(v, d)

SpecLong == Init /\ [][NextLong]_vars

----------------------------------------------------------------------------
(* AcPower driven directly: its methods called in any order, the clock      *)
(* advancing between calls                                                 *)

Elapse(d) ==
    /\ now + d <= MaxTime
    /\ now' = now + d
    /\ UNCHANGED <<store, max, state, switchValue, powerOffTime, powerOffTimeOut,
                   coolingOff, inputs, lastCall, ticks, calls, offCalls,
                   lastDeenergize, tiers, error, appended>>

CallTurnAcOff ==
    LET off == turnAcOff(switchValue, powerOffTime, now)
    IN /\ calls < MaxCalls
       /\ switchValue' = off.switchValue
       /\ powerOffTime' = off.powerOffTime
       /\ powerOffTimeOut' = off.ret
       /\ offCalls' = offCalls + 1
       /\ lastDeenergize' = IF switchValue = acPowerOn /\ off.switchValue = acPowerOff
                              THEN now ELSE lastDeenergize
       /\ lastCall' = "turnAcOff"
       /\ calls' = calls + 1
       /\ UNCHANGED <<store, max, state, now, coolingOff, inputs, ticks, tiers,
                      error, appended>>

CallTurnAcOn ==
    /\ calls < MaxCalls
    /\ switchValue' = turnAcOn(switchValue, powerOffTime, now)
    /\ coolingOff' = isCoolingOff(powerOffTime, now)
    /\ lastCall' = "turnAcOn"
    /\ calls' = calls + 1
    /\ UNCHANGED <<store, max, state, powerOffTime, now, powerOffTimeOut, inputs,
                   ticks, offCalls, lastDeenergize, tiers, error, appended>>

CallIsCoolingOff ==
    /\ calls < MaxCalls
    /\ coolingOff' = isCoolingOff(powerOffTime, now)
    /\ lastCall' = "isCoolingOff"
    /\ calls' = calls + 1
    /\ UNCHANGED <<store, max, state, switchValue, powerOffTime, now, powerOffTimeOut,
                   inputs, ticks, offCalls, lastDeenergize, tiers, error, appended>>

NextAcPower ==
    \/ \E d \in Deltas : Elapse(d)
    \/ CallTurnAcOff
    \/ CallTurnAcOn
    \/ CallIsCoolingOff

SpecAcPower == Init /\ [][NextAcPower]_vars

----------------------------------------------------------------------------
(* State driven directly: applyInputs called with any arguments            *)

SeqsUpTo(S, n) == UNION {[1..k -> S] : k \in 0..n}

CallApplyInputs(ins) ==
    /\ calls < MaxCalls
    /\ state' = applyInputs(state, ins)
    /\ inputs' = ins
    /\ lastCall' = "applyInputs"
    /\ calls' = calls + 1
    /\ UNCHANGED <<store, max, switchValue, powerOffTime, now, powerOffTimeOut,
                   coolingOff, ticks, offCalls, lastDeenergize, tiers, error,
                   appended>>

NextState ==
    \E ins \in SeqsUpTo({Rat(v) : v \in InputVolts}, MaxInputs) : CallApplyInputs(ins)

SpecState == Init /\ [][NextState]_vars

----------------------------------------------------------------------------
(* Queue driven directly: constructed with any capacity, then append and   *)
(* avg called in any order                                                 *)

InitQueue ==
    /\ max \in 0..MaxCap
    /\ store = <<>>
    /\ state = "normal"
    /\ switchValue = acPowerOn
    /\ powerOffTime = -1
    /\ now = 0
    /\ powerOffTimeOut = -1
    /\ coolingOff = FALSE
    /\ inputs = <<>>
    /\ lastCall = "none"
    /\ ticks = 0
    /\ calls = 0
    /\ offCalls = 0
    /\ lastDeenergize = -1
    /\ tiers = <<>>
    /\ error = "none"
    /\ appended = <<>>

CallAppend(v) ==
    LET out == appendOutcome(store, max)
    IN /\ calls < MaxQueueCalls
       /\ error' = out
       /\ store' = IF out = "none" THEN append(store, max, v) ELSE <<>>
       /\ appended' = IF out = "none" THEN Append(appended, v) ELSE appended
       /\ lastCall' = "append"
       /\ calls' = calls + 1
       /\ UNCHANGED <<max, state, switchValue, powerOffTime, now, powerOffTimeOut,
                      coolingOff, inputs, ticks, offCalls, lastDeenergize, tiers>>

CallAvg ==
    /\ calls < MaxQueueCalls
    /\ error' = avgOutcome(store)
    /\ lastCall' = "avg"
    /\ calls' = calls + 1
    /\ UNCHANGED <<store, max, state, switchValue, powerOffTime, now, powerOffTimeOut,
                   coolingOff, inputs, ticks, offCalls, lastDeenergize, tiers,
                   appended>>

NextQueue ==
    \/ \E v \in QueueVolts : CallAppend(v)
    \/ CallAvg

SpecQueue == InitQueue /\ [][NextQueue]_vars

----------------------------------------------------------------------------
(* Properties *)

\* the tier of the half-open voltage range that holds x
RangeOf(x) ==
    IF Lt(x, infoThresholdVolts) THEN "normal"
    ELSE IF Lt(x, noticeThresholdVolts) THEN "info"
    ELSE IF Lt(x, warnThresholdVolts) THEN "notice"
    ELSE "warning"

Disagree(ins) == \E i, j \in DOMAIN ins : RangeOf(ins[i]) # RangeOf(ins[j])

\* C1: over any sequence of ticks, every off-to-on change of the switch
\* happens at least coolOffSeconds after the on-to-off change before it.
C1_OnOnlyAfterCoolOff ==
    [][(switchValue = acPowerOff /\ switchValue' = acPowerOn)
         => now' - lastDeenergize >= coolOffSeconds]_vars

\* C2: at the end of every tick whose tier is Warning the switch is at its
\* off value, whether or not a cool-off is active.
C2_WarningTickEndsOff ==
    (ticks > 0 /\ state = "warning") => switchValue = acPowerOff

\* a Warning tick has ended, with the switch turned off although no cool-off
\* is active
C2_Witness ==
    /\ ticks > 0
    /\ state = "warning"
    /\ lastCall = "turnAcOff"
    /\ switchValue = acPowerOff
    /\ now - powerOffTime >= coolOffSeconds

\* C3: a turnAcOff that directly follows a turnAcOff (the switch is already
\* off) leaves the recorded off-timestamp as the first call recorded it.
C3_SecondOffKeepsTimestamp ==
    [][(/\ ticks' = ticks + 1
        /\ lastCall = "turnAcOff"
        /\ lastCall' = "turnAcOff"
        /\ switchValue = acPowerOff)
         => powerOffTime' = powerOffTime]_vars

\* C4: whenever turnAcOff is called while the switch is on, the off-timestamp
\* after the call is the clock's current time, and the call returns it.
C4_OffWhileOnRecordsNow ==
    [][(/\ ticks' = ticks + 1
        /\ lastCall' = "turnAcOff"
        /\ switchValue = acPowerOn)
         => (powerOffTime' = now' /\ powerOffTimeOut' = now')]_vars

\* C5: after a first turnAcOff at t0, a turnAcOn at time t is a no-op when
\* t - t0 < coolOffSeconds (switch stays off, off-timestamp unchanged) and
\* sets the switch on when t - t0 >= coolOffSeconds.
C5_TurnOnGatedByCoolOff ==
    [][(/\ calls' = calls + 1
        /\ lastCall' = "turnAcOn"
        /\ offCalls = 1)
         => IF now - lastDeenergize < coolOffSeconds
              THEN /\ switchValue = acPowerOff
                   /\ switchValue' = acPowerOff
                   /\ powerOffTime' = powerOffTime
              ELSE switchValue' = acPowerOn]_vars

\* turnAcOn has just set the switch on exactly coolOffSeconds after the only
\* turnAcOff
C5_Witness ==
    /\ offCalls = 1
    /\ lastCall = "turnAcOn"
    /\ switchValue = acPowerOn
    /\ now - lastDeenergize = coolOffSeconds

\* C6: isCoolingOff returns true if and only if turnAcOff was called at least
\* once and now - off-timestamp < coolOffSeconds, and it changes no state.
C6_CoolingOffIffRecorded ==
    [][(calls' = calls + 1 /\ lastCall' = "isCoolingOff")
         => /\ coolingOff' = (offCalls > 0 /\ now - powerOffTime < coolOffSeconds)
            /\ UNCHANGED <<switchValue, powerOffTime>>]_vars

\* C7: the off-timestamp differs from -1 if and only if turnAcOff has been
\* called at least once, and turnAcOn and isCoolingOff never change it.
C7_TimestampSetIffTurnedOff ==
    /\ []((powerOffTime # -1) <=> (offCalls > 0))
    /\ [][(calls' = calls + 1 /\ lastCall' \in {"turnAcOn", "isCoolingOff"})
            => powerOffTime' = powerOffTime]_vars

\* turnAcOn was called after a turnAcOff, and the timestamp is still set
C7_Witness ==
    /\ offCalls > 0
    /\ lastCall = "turnAcOn"
    /\ powerOffTime # -1

\* C8: for any previous tier, applyInputs with inputs that do not all fall
\* into the same voltage range leaves the tier as it was.
C8_DisagreementKeepsTier ==
    [][(/\ calls' = calls + 1
        /\ lastCall' = "applyInputs"
        /\ Disagree(inputs'))
         => state' = state]_vars

\* applyInputs was called with a Warning-range and a Notice-range input
\* while the tier was Info, and the tier is still Info
C8_Witness ==
    /\ lastCall = "applyInputs"
    /\ inputs = <<Rat(225), Rat(215)>>
    /\ state = "info"

\* C9: for any previous tier and any x, after applyInputs(x, x) the tier is
\* the one of the half-open range containing x (a threshold value belongs to
\* the upper tier).
C9_RepeatedValueAdoptsItsTier ==
    [][(/\ calls' = calls + 1
        /\ lastCall' = "applyInputs"
        /\ Len(inputs') = 2
        /\ inputs'[1] = inputs'[2])
         => state' = RangeOf(inputs'[1])]_vars

\* applyInputs(2.20, 2.20) was called and the tier is Warning
C9_Witness ==
    /\ lastCall = "applyInputs"
    /\ inputs = <<Rat(warnThresholdVolts), Rat(warnThresholdVolts)>>
    /\ state = "warning"

\* the four ticks fed 1.5, 1.5, 2.25, 2.25 from the empty buffer have run
C10_Scenario ==
    /\ ticks = 4
    /\ store = <<150, 150, 225, 225>>

\* C10 as stated: the readings 1.5, 1.5, 2.25, 2.25 leave the tier after
\* each tick at Normal, Normal, Normal, Warning.
C10_Original ==
    C10_Scenario => tiers = <<"normal", "normal", "normal", "warning">>

\* C10 amended: the readings 1.5, 1.5, 2.25, 2.25 leave the tier after each
\* tick at Normal, Normal, Normal, Normal (the averages 1.75 and 1.875 of
\* ticks 3 and 4 are in the Normal range, the reading is not).
C10_FourTicksStayNormal ==
    C10_Scenario => tiers = <<"normal", "normal", "normal", "normal">>

\* the scenario of C10 has run to its fourth tick
C10_Witness ==
    /\ C10_Scenario
    /\ inputs = <<Rat(225), <<750, 4>>>>

\* the last n elements of s
LastN(s, n) == SubSeq(s, Len(s) - n + 1, Len(s))

Min(a, b) == IF a < b THEN a ELSE b

\* C11: for every capacity N >= 1, after M appends to an empty Queue(max=N)
\* the queue holds exactly the last min(M, N) appended readings in their
\* order, so its length never exceeds N.
C11_HoldsLastReadings ==
    max >= 1 =>
        /\ store = LastN(appended, Min(Len(appended), max))
        /\ Len(store) <= max

\* more readings than the capacity were appended, and the oldest that is
\* kept differs from the oldest appended
C11_Witness ==
    /\ max >= 1
    /\ Len(appended) >= max + 2
    /\ Len(store) = max
    /\ store[1] # appended[1]

\* a cool-off is active: the switch was de-energized less than
\* coolOffSeconds ago
CoolOffActive ==
    lastDeenergize # -1 /\ now - lastDeenergize < coolOffSeconds

\* C12: at the end of every tick whose tier is Normal, Info or Notice and at
\* which no cool-off is active, the switch is on, and the power command was
\* issued for the tier computed from this tick's reading and the new average.
C12_OnWhenNotWarning ==
    (ticks > 0 /\ state \in {"normal", "info", "notice"} /\ ~CoolOffActive)
        => /\ switchValue = acPowerOn
           /\ lastCall = "turnAcOn"
           /\ inputs = <<Rat(store[Len(store)]), avg(store)>>

\* C13: the average of a buffer with zero readings yields the error
\* EmptyBufferError, not a division fault (and not a number).
C13_EmptyAverageIsEmptyBufferError ==
    [][(/\ calls' = calls + 1
        /\ lastCall' = "avg"
        /\ Len(store) = 0)
         => error' = "EmptyBufferError"]_vars

\* C13, the loop's half: a tick takes the average only after its reading
\* was appended, over a buffer of length >= 1, and no error escapes the tick.
C13_LoopAveragesNonEmpty ==
    ticks > 0 => (Len(store) >= 1 /\ inputs[2][2] = Len(store) /\ error = "none")

\* C14: a buffer of capacity 0 is rejected when it is constructed, and append
\* has no error outcome for any capacity accepted at construction.
C14_ZeroCapacityRejectedAppendTotal ==
    [][/\ max = 0 => error = "ConfigurationError"
       /\ (calls' = calls + 1 /\ lastCall' = "append") => error' = "none"]_vars

\* C15: applyInputs called with zero inputs is a no-op: for any previous
\* tier, the tier is unchanged after the call (the thresholds are assigned
\* in __init__ only).
C15_ZeroInputsNoOp ==
    [][(/\ calls' = calls + 1
        /\ lastCall' = "applyInputs"
        /\ Len(inputs') = 0)
         => state' = state]_vars

\* applyInputs() was called while the tier was Warning, and it still is
C15_Witness ==
    /\ lastCall = "applyInputs"
    /\ inputs = <<>>
    /\ state = "warning"

TierNames == {"normal", "info", "notice", "warning"}

\* C16: applyInputs gives every input exactly one true flag among the four
\* per-tier lists, so at most one tier has all inputs agreeing, and that tier
\* is the one adopted whatever the order in which the tiers are tested.
C16_OneTierPerInput ==
    lastCall = "applyInputs"
        => /\ \A t \in TierNames : Len(flags(t, inputs)) = Len(inputs)
           /\ \A i \in 1..Len(inputs) :
                Cardinality({t \in TierNames : flags(t, inputs)[i]}) = 1
           /\ Cardinality({t \in TierNames : reduceAnd(flags(t, inputs))}) <= 1
           /\ \A t \in TierNames : reduceAnd(flags(t, inputs)) => state = t

\* applyInputs was called with two inputs of one tier, a threshold value
\* among them, and adopted that tier
C16_Witness ==
    /\ lastCall = "applyInputs"
    /\ inputs = <<Rat(warnThresholdVolts), Rat(225)>>
    /\ state = "warning"

\* C17: in every reachable state of the loop the tier is one of normal,
\* info, notice, warning, starting at normal; the loop's fallback branch is
\* never taken and every tick issues exactly one of turnAcOn and turnAcOff.
C17_TierIsOneOfFour ==
    /\ state \in TierNames
    /\ ticks = 0 => state = "normal"
    /\ ticks > 0 => lastCall \in {"turnAcOn", "turnAcOff"}
    /\ \A i \in 1..Len(tiers) : tiers[i] \in TierNames

\* four ticks have run and each of the four tiers was the tier of one
C17_Witness ==
    /\ ticks = 4
    /\ {tiers[i] : i \in 1..Len(tiers)} = TierNames

\* the last n readings (n >= 1) were all at or above the warning threshold
HighRun(n) ==
    /\ Len(appended) >= n
    /\ \A i \in 1..n : appended[Len(appended) - n + i] >= warnThresholdVolts

\* the last n readings (n >= 1) were all below the info threshold
LowRun(n) ==
    /\ Len(appended) >= n
    /\ \A i \in 1..n : appended[Len(appended) - n + i] < infoThresholdVolts

\* C18: after any tick at which every reading held in the buffer is at or
\* above the warning threshold, the tier is Warning and the switch is off;
\* hence after 10 consecutive such readings the power is cut, whatever the
\* tier was before.
C18_SustainedHighCutsPower ==
    /\ (ticks > 0 /\ \A i \in 1..Len(store) : store[i] >= warnThresholdVolts)
         => (state = "warning" /\ switchValue = acPowerOff)
    /\ HighRun(10) => (state = "warning" /\ switchValue = acPowerOff)

\* a low reading was followed by 10 high ones, and the tier became Warning
\* only at the tenth
C18_Witness ==
    /\ Len(appended) = 11
    /\ appended[1] < warnThresholdVolts
    /\ HighRun(10)
    /\ tiers[10] = "normal"
    /\ state = "warning"
    /\ switchValue = acPowerOff

\* C19: once the last 10 readings are all below the info threshold, the tier
\* is Normal and stays so, the off-timestamp is no longer changed, and the
\* switch is on at the end of every tick at which coolOffSeconds have passed
\* since the recorded off-timestamp.
C19_PowerRestoredAfterLevelFalls ==
    [][LowRun(10)'
         => /\ state' = "normal"
            /\ powerOffTime' = powerOffTime
            /\ (powerOffTime' = -1 \/ now' - powerOffTime' >= coolOffSeconds)
                 => switchValue' = acPowerOn]_vars

\* the power was cut, 10 low readings followed, the cool-off has passed and
\* the switch is on again
C19_Witness ==
    /\ LowRun(10)
    /\ offCalls > 0
    /\ now - powerOffTime >= coolOffSeconds
    /\ state = "normal"
    /\ switchValue = acPowerOn

\* C20: the switch starts on; it changes from on to off only during a tick
\* whose tier is Warning and from off to on only during a tick whose tier is
\* Normal, Info or Notice.
C20_SwitchChangesFollowTier ==
    [][/\ ticks = 0 => switchValue = acPowerOn
       /\ (switchValue = acPowerOn /\ switchValue' = acPowerOff)
            => (ticks' = ticks + 1 /\ state' = "warning")
       /\ (switchValue = acPowerOff /\ switchValue' = acPowerOn)
            => (ticks' = ticks + 1 /\ state' \in {"normal", "info", "notice"})]_vars

\* the switch went off in a Warning tick and is on again after a later tick
\* of another tier
C20_Witness ==
    /\ lastDeenergize # -1
    /\ \E i \in 1..Len(tiers) : tiers[i] = "warning"
    /\ state \in {"normal", "info", "notice"}
    /\ switchValue = acPowerOn

====
